---- MODULE Spec2Model ----
(***************************************************************************)
(* Build-time model of the blog-post page pipeline.                        *)
(*                                                                         *)
(*   content store (markdown + front-matter)                               *)
(*     -> onCreateNode   one MarkdownRemark node per document              *)
(*     -> pageQuery      src/templates/blog-post.js, BlogPostBySlug        *)
(*     -> BlogPostTemplate   the React element handed to Layout / SEO      *)
(*                                                                         *)
(* JavaScript values that may be absent are tagged records: Null is        *)
(* null/undefined, Str(s) is the string s.  Strings the data layer derives *)
(* from the markdown body (excerpt, html) are uninterpreted terms over the *)
(* body and the arguments the query passes.                                *)
(***************************************************************************)
EXTENDS Integers, Sequences, FiniteSets, TLC

VARIABLES store, siteMetadata, nodes, pages, buildError

vars == <<store, siteMetadata, nodes, pages, buildError>>

(* ------------------------------ bounds --------------------------------- *)

\* number of markdown documents in the content store
NumDocs == 2

(* --------------------------- JavaScript values -------------------------- *)

Null == [type |-> "null"]

Str(s) == [type |-> "string", value |-> s]

\* ToBoolean on the values a front-matter string field can take
Truthy(v) == v.type = "string" /\ v.value # ""

\* a ?? b: falls back on null/undefined only
OrNullish(a, b) == IF a.type # "null" THEN a ELSE b

\* ignores the left operand
OrRight(a, b) == b

\* a || b
Or(a, b) == IF Truthy(a) THEN a ELSE b

(* ------------------------------ documents ------------------------------ *)

\* front-matter and first paragraph of the cookie-jar post
CookieJarPost ==
    [ title       |-> "Manage HTTP Cookie in Go with Cookie Jar",
      date        |-> [year |-> 2021, month |-> 2, day |-> 6],
      description |-> Str("Manage HTTP Cookie in Go with Cookie Jar"),
      rawBody     |-> "Go's standard HTTP library provides an interface to manage the storage of cookies in HTTP requests." ]

\* front-matter and closing paragraph of the connection-reuse post
ReuseConnectionPost ==
    [ title       |-> "How to Reuse HTTP Connection in Go",
      date        |-> [year |-> 2021, month |-> 4, day |-> 7],
      description |-> Str("Reuse HTTP Connection in Go"),
      rawBody     |-> "You should fully read the response body before you close it to ensure that the TCP connection is reused." ]

\* a post dated on a two-digit day of a two-digit month, titled like the
\* site, whose body holds inline markup
DraftPost ==
    [ title       |-> "Draft",
      date        |-> [year |-> 2020, month |-> 12, day |-> 25],
      description |-> Str("Draft"),
      rawBody     |-> "<b>a</b> & <i>b</i>" ]

\* the description key left out of the front-matter
WithoutDescription(doc) == [doc EXCEPT !.description = Null]

\* description: ""
WithEmptyDescription(doc) == [doc EXCEPT !.description = Str("")]

DocPool ==
    LET posts == {CookieJarPost, ReuseConnectionPost, DraftPost}
    IN  posts \cup {WithoutDescription(d) : d \in {CookieJarPost, ReuseConnectionPost}}
              \cup {WithEmptyDescription(d) : d \in {CookieJarPost, ReuseConnectionPost}}

SiteTitles == {"Husni Munaya", "Draft"}

Paths == 1 .. NumDocs

(* ------------------------------ formatting ----------------------------- *)

Digit == <<"0", "1", "2", "3", "4", "5", "6", "7", "8", "9">>

RECURSIVE NatToStr(_)
NatToStr(n) == IF n < 10 THEN Digit[n + 1]
               ELSE NatToStr(n \div 10) \o Digit[(n % 10) + 1]

RECURSIVE ZeroPad(_, _)
ZeroPad(s, width) == IF Len(s) >= width THEN s ELSE ZeroPad("0" \o s, width)

MonthNames == <<"January", "February", "March", "April", "May", "June", "July",
                "August", "September", "October", "November", "December">>

\* the format string with D for DD: day of month without padding
FormatTokenUnpadded(token, date) ==
    CASE token = "MMMM" -> MonthNames[date.month]
      [] token = "DD"   -> NatToStr(date.day)
      [] token = "YYYY" -> ZeroPad(NatToStr(date.year), 4)
      [] OTHER          -> token

\* one token of a date format string
FormatToken(token, date) ==
    CASE token = "MMMM" -> MonthNames[date.month]
      [] token = "DD"   -> ZeroPad(NatToStr(date.day), 2)
      [] token = "YYYY" -> ZeroPad(NatToStr(date.year), 4)
      [] OTHER          -> token

RECURSIVE FormatDate(_, _)
FormatDate(date, tokens) ==
    IF tokens = <<>> THEN ""
    ELSE FormatToken(Head(tokens), date) \o FormatDate(date, Tail(tokens))

\* "MMMM DD, YYYY"
formatString == <<"MMMM", " ", "DD", ", ", "YYYY">>

pruneLength == 160

\* excerpt(pruneLength: n): an uninterpreted term over the body and n
excerpt(rawBody, n) == Str("excerpt(" \o NatToStr(n) \o "):" \o rawBody)

\* html: an uninterpreted term over the body
html(rawBody) == "html:" \o rawBody

\* HTML-escaped markup
Escaped(markup) == "escaped:" \o markup

(* ------------------------------- indexing ------------------------------ *)

\* fields.slug, derived from the document's path
slugOf(path) == "/post-" \o NatToStr(path) \o "/"

MissingSlug == "/missing/"

Slugs == {slugOf(p) : p \in Paths} \cup {MissingSlug}

MakeNode(path, doc) ==
    [ id          |-> path,
      fields      |-> [slug |-> slugOf(path)],
      frontmatter |-> [title |-> doc.title, date |-> doc.date,
                       description |-> doc.description],
      rawBody     |-> doc.rawBody ]

Indexed == {nodes[i].id : i \in 1 .. Len(nodes)}

\* no query runs at all before indexing: the barrier left out
IndexingDoneNoBarrier == TRUE

\* every document of the store has its node
IndexingDone == Indexed = Paths

(* ------------------------------ page query ----------------------------- *)

\* the first node of the index, whatever slug is asked for
markdownRemarkUnfiltered(slug) == IF nodes = <<>> THEN Null ELSE nodes[1]

\* markdownRemark(fields: { slug: { eq: $slug } }): first matching node or null
markdownRemark(slug) ==
    LET matches == {i \in 1 .. Len(nodes) : nodes[i].fields.slug = slug}
    IN  IF matches = {} THEN Null
        ELSE nodes[CHOOSE i \in matches : \A j \in matches : i <= j]

\* query BlogPostBySlug($slug: String!)
pageQuery(slug) ==
    LET node == markdownRemark(slug)
    IN  [ site |-> [siteMetadata |-> [title |-> siteMetadata.title]],
          markdownRemark |->
            IF node = Null THEN Null
            ELSE [ id          |-> node.id,
                   excerpt     |-> excerpt(node.rawBody, pruneLength),
                   html        |-> html(node.rawBody),
                   frontmatter |->
                     [ title       |-> node.frontmatter.title,
                       date        |-> FormatDate(node.frontmatter.date, formatString),
                       description |-> node.frontmatter.description ] ] ]

(* ------------------------------- template ------------------------------ *)

\* site title and post title exchanged
BlogPostTemplateSwappedTitles(data, location) ==
    LET post      == data.markdownRemark
        siteTitle == data.site.siteMetadata.title
    IN  IF post = Null THEN [threw |-> "TypeError"]
        ELSE [ Layout      |-> [location |-> location, title |-> post.frontmatter.title],
               SEO         |-> [ title       |-> siteTitle,
                                 description |-> Or(post.frontmatter.description, post.excerpt) ],
               HeaderTitle |-> siteTitle,
               HeaderDate  |-> post.frontmatter.date,
               section     |-> post.html ]

\* the body rendered as escaped text instead of dangerouslySetInnerHTML
BlogPostTemplateEscaping(data, location) ==
    LET post      == data.markdownRemark
        siteTitle == data.site.siteMetadata.title
    IN  IF post = Null THEN [threw |-> "TypeError"]
        ELSE [ Layout      |-> [location |-> location, title |-> siteTitle],
               SEO         |-> [ title       |-> post.frontmatter.title,
                                 description |-> Or(post.frontmatter.description, post.excerpt) ],
               HeaderTitle |-> post.frontmatter.title,
               HeaderDate  |-> post.frontmatter.date,
               section     |-> Escaped(post.html) ]

\* post?.frontmatter: a null post renders an empty page instead of throwing
BlogPostTemplateOptionalChaining(data, location) ==
    LET post      == data.markdownRemark
        siteTitle == data.site.siteMetadata.title
    IN  IF post = Null
        THEN [ Layout      |-> [location |-> location, title |-> siteTitle],
               SEO         |-> [title |-> "", description |-> Null],
               HeaderTitle |-> "",
               HeaderDate  |-> "",
               section     |-> "" ]
        ELSE [ Layout      |-> [location |-> location, title |-> siteTitle],
               SEO         |-> [ title       |-> post.frontmatter.title,
                                 description |-> Or(post.frontmatter.description, post.excerpt) ],
               HeaderTitle |-> post.frontmatter.title,
               HeaderDate  |-> post.frontmatter.date,
               section     |-> post.html ]

\* the element BlogPostTemplate returns, or the TypeError that reading
\* post.frontmatter throws when data.markdownRemark is null
BlogPostTemplate(data, location) ==
    LET post      == data.markdownRemark
        siteTitle == data.site.siteMetadata.title
    IN  IF post = Null THEN [threw |-> "TypeError"]
        ELSE [ Layout      |-> [location |-> location, title |-> siteTitle],
               SEO         |-> [ title       |-> post.frontmatter.title,
                                 description |-> Or(post.frontmatter.description, post.excerpt) ],
               HeaderTitle |-> post.frontmatter.title,
               HeaderDate  |-> post.frontmatter.date,
               section     |-> post.html ]

(* -------------------------------- build -------------------------------- *)

NoPages == [s \in {} |-> Null]

Init ==
    /\ store \in [Paths -> DocPool]
    /\ siteMetadata \in {[title |-> t] : t \in SiteTitles}
    /\ nodes = <<>>
    /\ pages = NoPages
    /\ buildError = Null

\* one document parsed into its node; documents are indexed in any order
onCreateNode(path) ==
    /\ buildError = Null
    /\ path \notin Indexed
    /\ nodes' = Append(nodes, MakeNode(path, store[path]))
    /\ UNCHANGED <<store, siteMetadata, pages, buildError>>

\* the page at slug is built: its query runs and the template renders the result
RenderPage(slug) ==
    /\ IndexingDone
    /\ buildError = Null
    /\ slug \notin DOMAIN pages
    /\ LET element == BlogPostTemplate(pageQuery(slug), slug)
       IN  IF "threw" \in DOMAIN element
           THEN /\ buildError' = [path |-> slug, error |-> element.threw]
                /\ UNCHANGED pages
           ELSE /\ pages' = pages @@ (slug :> element)
                /\ UNCHANGED buildError
    /\ UNCHANGED <<store, siteMetadata, nodes>>

Next ==
    \/ \E path \in Paths : onCreateNode(path)
    \/ \E slug \in Slugs : RenderPage(slug)

Spec == Init /\ [][Next]_vars

(* ------------------------------ properties ----------------------------- *)

\* C1: a page built for a document whose front-matter description is a
\* non-empty string hands exactly that description to SEO, whatever the excerpt.
C1_DescriptionVerbatim ==
    \A p \in Paths :
        ( /\ slugOf(p) \in DOMAIN pages
          /\ store[p].description.type = "string"
          /\ store[p].description.value # "" )
        => pages[slugOf(p)].SEO.description = store[p].description

C1_Witness ==
    \E p \in Paths :
        /\ slugOf(p) \in DOMAIN pages
        /\ store[p].description = Str("Reuse HTTP Connection in Go")
        /\ pages[slugOf(p)].SEO.description = Str("Reuse HTTP Connection in Go")
        /\ pages[slugOf(p)].SEO.description # excerpt(store[p].rawBody, 160)

\* C2: a page built for a document whose description is absent or the empty
\* string hands the excerpt pruned at 160 to SEO; the two cases are treated alike.
C2_ExcerptFallback ==
    \A p \in Paths :
        ( /\ slugOf(p) \in DOMAIN pages
          /\ \/ store[p].description.type = "null"
             \/ store[p].description = Str("") )
        => pages[slugOf(p)].SEO.description = excerpt(store[p].rawBody, 160)

C2_Witness ==
    \E p, q \in Paths :
        /\ slugOf(p) \in DOMAIN pages
        /\ slugOf(q) \in DOMAIN pages
        /\ store[p].description = Null
        /\ store[q].description = Str("")
        /\ pages[slugOf(p)].SEO.description = excerpt(store[p].rawBody, 160)
        /\ pages[slugOf(q)].SEO.description = excerpt(store[q].rawBody, 160)

C4_PayloadFields ==
    \A p \in Paths :
        slugOf(p) \in DOMAIN pages =>
            LET page == pages[slugOf(p)]
            IN  /\ page.Layout.title = siteMetadata.title
                /\ page.SEO.title = store[p].title
                /\ page.HeaderTitle = store[p].title
                /\ page.HeaderDate = FormatDate(store[p].date, formatString)
                /\ page.section = html(store[p].rawBody)

C4_Witness ==
    \E p \in Paths :
        /\ slugOf(p) \in DOMAIN pages
        /\ siteMetadata.title # store[p].title
        /\ pages[slugOf(p)].Layout.title = "Husni Munaya"
        /\ pages[slugOf(p)].SEO.title = "Manage HTTP Cookie in Go with Cookie Jar"
        /\ pages[slugOf(p)].HeaderTitle = "Manage HTTP Cookie in Go with Cookie Jar"

\* C5: the body of every built page is the node's html unchanged, and a step
\* that builds a page (or fails to) leaves the nodes and the store as they were.
C5_BodyVerbatim ==
    /\ [](\A i \in 1 .. Len(nodes) :
              nodes[i].fields.slug \in DOMAIN pages =>
                  pages[nodes[i].fields.slug].section = html(nodes[i].rawBody))
    /\ [][(pages' # pages \/ buildError' # buildError) =>
              (nodes' = nodes /\ store' = store)]_vars

C5_Witness ==
    \E i \in 1 .. Len(nodes) :
        /\ nodes[i].fields.slug \in DOMAIN pages
        /\ nodes[i].rawBody = DraftPost.rawBody
        /\ pages[nodes[i].fields.slug].section = "html:<b>a</b> & <i>b</i>"

\* C7: whatever the order in which documents are indexed, a page query has
\* run only if every document has its node, and from then on no node changes.
C7_IndexingBarrier ==
    /\ []((pages # NoPages \/ buildError # Null) => Indexed = Paths)
    /\ [][(Indexed = Paths) => (nodes' = nodes /\ store' = store)]_vars

C7_Witness ==
    /\ Len(nodes) = NumDocs
    /\ nodes[1].id # 1
    /\ pages # NoPages

C10_HeaderDateFormat ==
    \A p \in Paths :
        slugOf(p) \in DOMAIN pages =>
            LET d    == store[p].date
                date == pages[slugOf(p)].HeaderDate
            IN  /\ date = MonthNames[d.month] \o " "
                            \o Digit[(d.day \div 10) + 1] \o Digit[(d.day % 10) + 1]
                            \o ", "
                            \o Digit[(d.year \div 1000) + 1]
                            \o Digit[((d.year \div 100) % 10) + 1]
                            \o Digit[((d.year \div 10) % 10) + 1]
                            \o Digit[(d.year % 10) + 1]
                /\ Len(date) = Len(MonthNames[d.month]) + 9
                /\ (d = [year |-> 2021, month |-> 2, day |-> 6]
                      => date = "February 06, 2021")

C10_Witness ==
    \E p \in Paths :
        /\ slugOf(p) \in DOMAIN pages
        /\ store[p].date = [year |-> 2021, month |-> 2, day |-> 6]
        /\ pages[slugOf(p)].HeaderDate = "February 06, 2021"

====
